---- MODULE Spec2Model ----
(***************************************************************************)
(* Process picker of the Nsight VS Code extension: the parser of one line  *)
(* of `ps` output (parseLineFromPs), the lister that runs `ps` and parses  *)
(* its output (getAttachItems) and the selection workflow (chooseProcess,  *)
(* pickProcess).                                                           *)
(*                                                                         *)
(* A JavaScript string is modelled as a sequence of one-character strings, *)
(* so that slicing, trimming, splitting and matching are computed.         *)
(***************************************************************************)
EXTENDS Integers, Sequences, FiniteSets

VARIABLES
    line,            \* parseLineFromPs: the `line` argument
    usernameWidth,   \* parseLineFromPs: the `usernameCharacters` argument
    commandWidth,    \* parseLineFromPs: the `commandCharacters` argument
    source,          \* <<r>> when `line` was printed from the process r, else <<>>
    parsed,          \* parseLineFromPs: <<>> before the call, then <<result>>
    pc,              \* per invocation of pickProcess: where it is suspended
    execCalls,       \* per invocation: how many times exec() was called
    shown,           \* per invocation: the lists handed to showQuickPick, in order
    stdout,          \* per invocation: what exec() resolved with
    stderr,
    execError,       \* per invocation: <<e>> when exec() rejected with e, else <<>>
    picked,          \* per invocation: <<>> before showQuickPick resolves, then <<answer>>
    outcome          \* per invocation: how the promise of pickProcess settled

parseVars == <<line, usernameWidth, commandWidth, source, parsed>>
flowVars == <<pc, execCalls, shown, stdout, stderr, execError, picked, outcome>>
vars == <<parseVars, flowVars>>

----------------------------------------------------------------------------
(* Characters and the character classes of the regular expression.         *)

SP == " "
LF == "\n"
CR == "\r"
TAB == "\t"

\* \s of a JavaScript regular expression, and what String.prototype.trim strips
WhiteSpace == {SP, TAB, LF, CR}
\* . of a JavaScript regular expression (no s flag) matches all but these
LineTerminators == {LF, CR}
DigitChars == <<"0", "1", "2", "3", "4", "5", "6", "7", "8", "9">>

IsSpace(c) == c \in WhiteSpace
IsDigit(c) == \E d \in 1..10 : DigitChars[d] = c
IsDot(c) == c \notin LineTerminators

Range(s) == {s[k] : k \in DOMAIN s}
Max(S) == CHOOSE x \in S : \A y \in S : y <= x
Min(S) == CHOOSE x \in S : \A y \in S : x <= y

\* String.prototype.trim
Trim(s) ==
    LET keep == {k \in DOMAIN s : ~IsSpace(s[k])}
    IN  IF keep = {} THEN <<>> ELSE SubSeq(s, Min(keep), Max(keep))

DigitValue(c) == CHOOSE d \in 0..9 : DigitChars[d + 1] = c

\* Number(pid) of a string of decimal digits (exact below 2^53)
RECURSIVE Number(_)
Number(digits) ==
    IF digits = <<>> THEN 0
    ELSE 10 * Number(SubSeq(digits, 1, Len(digits) - 1))
         + DigitValue(digits[Len(digits)])

\* Number.prototype.toString of a non-negative integer (below 10^21)
RECURSIVE NumToString(_)
NumToString(n) ==
    IF n < 10 THEN <<DigitChars[n + 1]>>
    ELSE NumToString(n \div 10) \o <<DigitChars[(n % 10) + 1]>>

----------------------------------------------------------------------------
(* parseLineFromPs                                                         *)

\* the number of consecutive characters of class \s starting at index p
RECURSIVE SpaceRun(_, _)
SpaceRun(s, p) ==
    IF p > Len(s) \/ ~IsSpace(s[p]) THEN 0 ELSE 1 + SpaceRun(s, p + 1)

\* the number of consecutive characters of class [0-9] starting at index p
RECURSIVE DigitRun(_, _)
DigitRun(s, p) ==
    IF p > Len(s) \/ ~IsDigit(s[p]) THEN 0 ELSE 1 + DigitRun(s, p + 1)

\* .{n} matches at index p
DotsAt(s, p, n) ==
    /\ n >= 0
    /\ p + n - 1 <= Len(s)
    /\ \A j \in p..(p + n - 1) : IsDot(s[j])

\* the length of a captured column: ${usernameCharacters - 1}, ${commandCharacters - 1}
FieldLenShort(w) == w - 2
FieldLen(w) == w - 1

\* ^\s*([0-9]+)\s+(.{u-1})\s+(.{c-1})\s+(.*)$ executed on s: <<>> when there is
\* no match, else <<m>> with the four captures.  \s* and [0-9]+ can only take
\* their whole run (a shorter one leaves a character the next item refuses);
\* each \s+ is greedy and backtracks, the leftmost \s+ last, so the match found
\* has the longest first separator, then the longest second, then the longest
\* third.  Longest(k, Ok) is a \s+ that took k characters and gives them back
\* one at a time until the rest of the pattern matches: the longest n in 1..k
\* with Ok(n), or 0 when there is none.
PsEntryExec(s, u, c) ==
    LET Longest(k, Ok(_)) ==
            LET back == CHOOSE d \in 0..k :
                            /\ d = k \/ Ok(k - d)
                            /\ \A e \in 0..(d - 1) : ~Ok(k - e)
            IN  k - back
        lead == SpaceRun(s, 1)
        nd == DigitRun(s, lead + 1)
        p1 == lead + nd + 1
        Rest(p) == \A j \in p..Len(s) : IsDot(s[j])
        Sep3(p3) == LET Ok3(s3) == Rest(p3 + s3)
                    IN  Longest(SpaceRun(s, p3), Ok3)
        Sep2(p2) == LET Ok2(s2) == /\ DotsAt(s, p2 + s2, FieldLen(c))
                                   /\ Sep3(p2 + s2 + FieldLen(c)) > 0
                    IN  Longest(SpaceRun(s, p2), Ok2)
        Ok1(s1) == /\ DotsAt(s, p1 + s1, FieldLen(u))
                   /\ Sep2(p1 + s1 + FieldLen(u)) > 0
        s1 == Longest(SpaceRun(s, p1), Ok1)
    IN  IF nd = 0 \/ s1 = 0 THEN <<>>
        ELSE LET p2 == p1 + s1 + FieldLen(u)
                 s2 == Sep2(p2)
                 p3 == p2 + s2 + FieldLen(c)
                 s3 == Sep3(p3)
             IN  << <<SubSeq(s, lead + 1, lead + nd),
                      SubSeq(s, p1 + s1, p2 - 1),
                      SubSeq(s, p2 + s2, p3 - 1),
                      SubSeq(s, p3 + s3, Len(s))>> >>

ProcessItemUntrimmed(m) ==
    [pid |-> Number(Trim(m[1])),
     label |-> m[2] \o <<":">> \o m[3],
     description |-> Trim(m[1]),
     detail |-> m[4]]

\* the ProcessItem built from the captures
ProcessItem(m) ==
    LET pid == Trim(m[1])
        username == Trim(m[2])
        executable == Trim(m[3])
        cmdline == Trim(m[4])
    IN  [pid |-> Number(pid),
         label |-> username \o <<":">> \o executable,
         description |-> pid,
         detail |-> cmdline]

\* <<>> is `undefined` (noValidProcess), <<item>> a ProcessItem
ParseLineFromPs(s, usernameCharacters, commandCharacters) ==
    LET matches == PsEntryExec(s, usernameCharacters, commandCharacters)
    IN  IF matches # <<>> THEN <<ProcessItem(matches[1])>> ELSE <<>>

----------------------------------------------------------------------------
(* Inputs of the parser: lines typed character by character, and lines     *)
(* printed the way `ps -o pid,uname:U,comm:C,args` prints a process.       *)

MaxWidth == 3
MaxLineLen == 6
MaxArgsLen == 3
PidColumn == 2

TypedChars == {SP, "0", "7", "a"}
FieldChars == {"a", SP}
PidSamples == {0, 7, 10}

Strings(S, n) == UNION {[1..k -> S] : k \in 0..n}
Trimmed(S, n) == {t \in Strings(S, n) : Trim(t) = t}
Spaces(n) == [k \in 1..n |-> SP]
PadRight(t, w) == IF Len(t) >= w THEN t ELSE t \o Spaces(w - Len(t))
PadLeft(t, w) == IF Len(t) >= w THEN t ELSE Spaces(w - Len(t)) \o t

\* the processes a line is printed from: every text field is trimmed, and a
\* column holds at most its width
ProcessRecords(u, c) ==
    [pid : PidSamples,
     username : Trimmed(FieldChars, u),
     executable : Trimmed(FieldChars, c),
     commandLine : Trimmed(FieldChars, MaxArgsLen)]

\* one row of the table: the pid right-aligned, the two sized columns padded to
\* their widths, one space between columns, the arguments last
PsLine(r, u, c) ==
    PadLeft(NumToString(r.pid), PidColumn) \o <<SP>>
    \o PadRight(r.username, u) \o <<SP>>
    \o PadRight(r.executable, c) \o <<SP>>
    \o r.commandLine

----------------------------------------------------------------------------
(* The workflow's state before any invocation.                             *)

Inv == {1, 2}
NoText == <<>>
Pending == [kind |-> "pending", value |-> NoText]

FlowInit ==
    /\ pc = [i \in Inv |-> "idle"]
    /\ execCalls = [i \in Inv |-> 0]
    /\ shown = [i \in Inv |-> <<>>]
    /\ stdout = [i \in Inv |-> NoText]
    /\ stderr = [i \in Inv |-> NoText]
    /\ execError = [i \in Inv |-> <<>>]
    /\ picked = [i \in Inv |-> <<>>]
    /\ outcome = [i \in Inv |-> Pending]

----------------------------------------------------------------------------
(* The parser as a state machine: choose the arguments, call it once.      *)

ParseInit ==
    /\ line = <<>>
    /\ usernameWidth \in 1..MaxWidth
    /\ commandWidth \in 1..MaxWidth
    /\ source = <<>>
    /\ parsed = <<>>
    /\ FlowInit

TypeChar(ch) ==
    /\ parsed = <<>>
    /\ source = <<>>
    /\ Len(line) < MaxLineLen
    /\ line' = Append(line, ch)
    /\ UNCHANGED <<usernameWidth, commandWidth, source, parsed, flowVars>>

PrintLine ==
    /\ parsed = <<>>
    /\ source = <<>>
    /\ line = <<>>
    /\ \E r \in ProcessRecords(usernameWidth, commandWidth) :
        /\ line' = PsLine(r, usernameWidth, commandWidth)
        /\ source' = <<r>>
    /\ UNCHANGED <<usernameWidth, commandWidth, parsed, flowVars>>

CallParse ==
    /\ parsed = <<>>
    /\ parsed' = <<ParseLineFromPs(line, usernameWidth, commandWidth)>>
    /\ UNCHANGED <<line, usernameWidth, commandWidth, source, flowVars>>

ParseNext ==
    \/ \E ch \in TypedChars : TypeChar(ch)
    \/ PrintLine
    \/ CallParse

SpecParse == ParseInit /\ [][ParseNext]_vars

\* the call returned a ProcessItem / returned undefined
Matched == parsed # <<>> /\ parsed[1] # <<>>
NoMatch == parsed # <<>> /\ parsed[1] = <<>>
Item == parsed[1][1]

\* the least length a matching line can have, as the specification counts it
MinLineLen(u, c) == 1 + 1 + (u - 1) + 1 + (c - 1) + 1

----------------------------------------------------------------------------
(* getAttachItems                                                          *)

usernameCharacters == 20
commandCharacters == 50

\* The text of stderr is a sequence of words; String.prototype.includes is the
\* search for a contiguous run of them.
ScreenSizeIsBogus == <<"screen", "size", "is", "bogus">>
Includes(s, t) == \E k \in 0..(Len(s) - Len(t)) : SubSeq(s, k + 1, k + Len(t)) = t

IgnoredDiagnosticExact(err) == err = ScreenSizeIsBogus
\* stderr.includes('screen size is bogus')
IgnoredDiagnostic(err) == Includes(err, ScreenSizeIsBogus)

\* String.prototype.split('\n')
RECURSIVE Split(_)
Split(s) ==
    LET nl == {k \in DOMAIN s : s[k] = LF}
    IN  IF nl = {} THEN <<s>>
        ELSE <<SubSeq(s, 1, Min(nl) - 1)>> \o Split(SubSeq(s, Min(nl) + 1, Len(s)))

NewQuickPickListKept(i) ==
    LET others == {j \in Inv \ {i} : shown[j] # <<>>}
    IN  IF others = {} THEN <<>>
        ELSE LET j == CHOOSE j \in others : TRUE IN shown[j][Len(shown[j])]
\* const quickPickList: ProcessItem[] = [], a new list in every call
NewQuickPickList(i) == <<>>

QuickPickUnshift(list, entry) == <<entry>> \o list
\* quickPickList.push(processEntry)
QuickPickPush(list, entry) == Append(list, entry)

\* for (let i = 1; ...: lines[0] is the header of the output table
LoopStartAtHeader == 1 - 1
LoopStart == 1

\* the loop over output[i], i counted from 0 as in the source
RECURSIVE Loop(_, _, _)
Loop(output, i, quickPickList) ==
    IF ~(i < Len(output)) THEN quickPickList
    ELSE LET ln == output[i + 1]
             processEntry ==
                 IF ln # <<>>
                 THEN ParseLineFromPs(ln, usernameCharacters, commandCharacters)
                 ELSE <<>>
         IN  Loop(output, i + 1,
                  IF processEntry # <<>>
                  THEN QuickPickPush(quickPickList, processEntry[1])
                  ELSE quickPickList)

Returned(v) == [ok |-> TRUE, value |-> v]
Thrown(message) == [ok |-> FALSE, value |-> message]

UnableToSelect == "Unable to select process to attach to: "

\* getAttachItems after exec() resolved with {stdout: out, stderr: err}.  The
\* resolved object has no `error` property, so `error` is undefined there.
GetAttachItems(out, err, quickPickList) ==
    LET error == FALSE
        truthy == err # <<>>
    IN  IF (error \/ truthy) /\ ~(truthy /\ IgnoredDiagnostic(err))
        THEN Thrown(<<UnableToSelect>> \o err)
        ELSE Returned(Loop(Split(out), LoopStart, quickPickList))

----------------------------------------------------------------------------
(* chooseProcess and pickProcess                                           *)

AwaitItemsOrEmpty(listing) == IF listing.ok THEN listing ELSE Returned(<<>>)
\* const items = await getAttachItems(): the list, or the error thrown on
AwaitItems(listing) == listing

ProcessNotSelected == "Process not selected"
Undefined == <<"undefined">>

ChooseProcessLenient(process) == Returned(process)
\* chooseProcess once showQuickPick resolved with `process` (<<>> is undefined)
ChooseProcess(process) ==
    IF process = <<>> THEN Thrown(<<ProcessNotSelected>>) ELSE Returned(process)

FormatLabelFirst(processToReturn) ==
    processToReturn[1].label \o <<":">> \o NumToString(processToReturn[1].pid)
\* `${pid}:${label}` with pid = processToReturn?.pid.toString()
Format(processToReturn) ==
    LET pid == IF processToReturn = <<>> THEN Undefined
               ELSE NumToString(processToReturn[1].pid)
        label == IF processToReturn = <<>> THEN Undefined
                 ELSE processToReturn[1].label
    IN  pid \o <<":">> \o label

Resolved(v) == [kind |-> "resolved", value |-> v]
Rejected(e) == [kind |-> "rejected", value |-> e]

\* pickProcess once chooseProcess settled
PickProcess(chosen) ==
    IF chosen.ok THEN Resolved(Format(chosen.value)) ELSE Rejected(chosen.value)

----------------------------------------------------------------------------
(* What exec() and the chooser may answer.                                 *)

MaxLines == 3

Root == <<"r", "o", "o", "t">>
Systemd == <<"s", "y", "s", "t", "e", "m", "d">>
SbinInit == <<"/", "s", "b", "i", "n", "/", "i", "n", "i", "t">>
ShCx == <<"s", "h", " ", "-", "c", " ", "x">>

Process1 == [pid |-> 1, username |-> Root, executable |-> Systemd,
             commandLine |-> SbinInit]
Process42 == [pid |-> 42, username |-> Root, executable |-> Systemd,
              commandLine |-> <<>>]
Process7 == [pid |-> 7, username |-> <<"m", "e">>, executable |-> <<"s", "h">>,
             commandLine |-> ShCx]

Row(r) == PsLine(r, usernameCharacters, commandCharacters)
HeaderRow ==
    PadLeft(<<"P", "I", "D">>, PidColumn) \o <<SP>>
    \o PadRight(<<"U", "S", "E", "R">>, usernameCharacters) \o <<SP>>
    \o PadRight(<<"C", "O", "M", "M", "A", "N", "D">>, commandCharacters) \o <<SP>>
    \o <<"C", "O", "M", "M", "A", "N", "D">>
\* a row cut short, as a line that does not have the table's shape
CutRow == SubSeq(Row(Process1), 1, usernameCharacters)

FirstLines == {HeaderRow, Row(Process7), <<>>}
BodyLines == {Row(Process1), Row(Process42), CutRow, <<>>}

RECURSIVE Join(_)
Join(lines) ==
    IF Len(lines) = 1 THEN lines[1]
    ELSE lines[1] \o <<LF>> \o Join(Tail(lines))

Stdouts ==
    {Join(<<first>> \o body) :
        first \in FirstLines, body \in Strings(BodyLines, MaxLines)}

Stderrs ==
    {before \o core \o after :
        before \in {<<>>, <<"your", "131072x1">>},
        core \in {<<>>, ScreenSizeIsBogus, <<"screen", "size">>},
        after \in {<<>>, <<"expect", "trouble">>}}

ExecErrors == {<<"Command failed: ps", "ENOENT">>, <<"Command failed: ps", "EAGAIN">>}

\* the inputs of the specification with two invocations in flight
FewStdouts ==
    {Join(<<HeaderRow, Row(Process1), <<>> >>),
     Join(<<HeaderRow, Row(Process42), Row(Process7), <<>> >>)}
FewStderrs == {<<>>, <<"ps:", "failed">>, <<"ps:", "denied">>}

----------------------------------------------------------------------------
(* The workflow: one action per resumption of an invocation of pickProcess.*)

Init ==
    /\ line = <<>>
    /\ usernameWidth = usernameCharacters
    /\ commandWidth = commandCharacters
    /\ source = <<>>
    /\ parsed = <<>>
    /\ FlowInit

\* pickProcess() is called: it runs down to `await exec(...)`
Invoke(i) ==
    /\ pc[i] = "idle"
    /\ execCalls' = [execCalls EXCEPT ![i] = @ + 1]
    /\ pc' = [pc EXCEPT ![i] = "exec"]
    /\ UNCHANGED <<parseVars, shown, stdout, stderr, execError, picked, outcome>>

\* exec() resolves: getAttachItems runs to its end, chooseProcess either calls
\* showQuickPick(items) or lets the error through to pickProcess
ExecResolve(i, out, err) ==
    /\ pc[i] = "exec"
    /\ stdout' = [stdout EXCEPT ![i] = out]
    /\ stderr' = [stderr EXCEPT ![i] = err]
    /\ LET items == AwaitItems(GetAttachItems(out, err, NewQuickPickList(i)))
       IN  IF items.ok
           THEN /\ shown' = [shown EXCEPT ![i] = Append(@, items.value)]
                /\ pc' = [pc EXCEPT ![i] = "pick"]
                /\ UNCHANGED outcome
           ELSE /\ outcome' = [outcome EXCEPT ![i] = PickProcess(items)]
                /\ pc' = [pc EXCEPT ![i] = "done"]
                /\ UNCHANGED shown
    /\ UNCHANGED <<parseVars, execCalls, execError, picked>>

\* exec() rejects: the error passes through the three awaits
ExecReject(i, e) ==
    /\ pc[i] = "exec"
    /\ execError' = [execError EXCEPT ![i] = <<e>>]
    /\ outcome' = [outcome EXCEPT ![i] = PickProcess(AwaitItems(Thrown(e)))]
    /\ pc' = [pc EXCEPT ![i] = "done"]
    /\ UNCHANGED <<parseVars, execCalls, shown, stdout, stderr, picked>>

\* showQuickPick resolves with one of the items it was given, or with undefined
PickRespond(i) ==
    /\ pc[i] = "pick"
    /\ \E process \in {<<>>} \cup {<<it>> : it \in Range(shown[i][Len(shown[i])])} :
        /\ picked' = [picked EXCEPT ![i] = <<process>>]
        /\ outcome' = [outcome EXCEPT ![i] = PickProcess(ChooseProcess(process))]
    /\ pc' = [pc EXCEPT ![i] = "done"]
    /\ UNCHANGED <<parseVars, execCalls, shown, stdout, stderr, execError>>

\* two invocations whose suspensions interleave
Next ==
    \E i \in Inv :
        \/ Invoke(i)
        \/ \E out \in FewStdouts, err \in FewStderrs : ExecResolve(i, out, err)
        \/ \E e \in ExecErrors : ExecReject(i, e)
        \/ PickRespond(i)

Spec == Init /\ [][Next]_vars

\* one invocation, over all the outputs of the command
ListNext ==
    \/ Invoke(1)
    \/ \E out \in Stdouts, err \in Stderrs : ExecResolve(1, out, err)
    \/ \E e \in ExecErrors : ExecReject(1, e)
    \/ PickRespond(1)

SpecList == Init /\ [][ListNext]_vars

----------------------------------------------------------------------------
(* Properties of parseLineFromPs, checked under SpecParse.                 *)

Printed == source # <<>> /\ parsed # <<>>
Process == source[1]
Recovered ==
    /\ Matched
    /\ Item.pid = Process.pid
    /\ Item.label = Trim(Process.username) \o <<":">> \o Trim(Process.executable)
    /\ Item.detail = Process.commandLine

\* a text that is not empty and leaves the last character of its column free
FitsColumn(t, w) == 1 <= Len(t) /\ Len(t) <= w - 1

\* C4, as claimed: the line printed from any process, its columns padded to
\* their widths, is matched and gives back the pid, the trimmed username, the
\* trimmed executable and the command line, also when a text fills its column.
C4_RoundTripAnyField ==
    (Printed /\ Process.username # <<>> /\ Process.executable # <<>>) => Recovered

\* C4, amended: the round trip holds for the processes whose username and
\* executable are not empty and are at most one character shorter than their
\* column.
C4_RoundTripFittingFields ==
    (/\ Printed
     /\ FitsColumn(Process.username, usernameWidth)
     /\ FitsColumn(Process.executable, commandWidth)) => Recovered

C4_Witness ==
    /\ Printed
    /\ Recovered
    /\ usernameWidth = 3
    /\ commandWidth = 3
    /\ Len(Process.username) = 2
    /\ Len(Process.executable) = 1
    /\ Process.commandLine = <<>>

\* C7: a line shorter than 1 + 1 + (usernameWidth - 1) + 1 + (commandWidth - 1) + 1
\* characters is never matched.
C7_ShortLineNoMatch ==
    (parsed # <<>> /\ Len(line) < MinLineLen(usernameWidth, commandWidth))
        => parsed[1] = <<>>

C7_Witness ==
    /\ NoMatch
    /\ Len(line) = MinLineLen(usernameWidth, commandWidth) - 1
    /\ IsDigit(line[1])
    /\ IsSpace(line[Len(line)])

\* C8: the description of every returned item is the decimal form of its pid.
C8_DescriptionIsPidToString == Matched => Item.description = NumToString(Item.pid)

----------------------------------------------------------------------------
(* Properties of getAttachItems, chooseProcess and pickProcess.            *)

\* exec() resolved for invocation i, so stdout[i] and stderr[i] are its output
ExecResolved(i) == pc[i] \in {"pick", "done"} /\ execError[i] = <<>>
\* getAttachItems returned for invocation i, and its list went to showQuickPick
Listed(i) == shown[i] # <<>>
Items(i) == shown[i][Len(shown[i])]

ParseRow(l) == ParseLineFromPs(l, usernameCharacters, commandCharacters)
Structural(l) == l # <<>> /\ ParseRow(l) # <<>>

\* the records of the lines after the first that match, in the order of the lines
Candidates(out) ==
    LET hits == SelectSeq(Tail(Split(out)), Structural)
    IN  [k \in 1..Len(hits) |-> ParseRow(hits[k])[1]]

CommandExecutionError(err) == Rejected(<<UnableToSelect>> \o err)
SelectionError == Rejected(<<ProcessNotSelected>>)
Answered(i) == picked[i] # <<>>
Answer(i) == picked[i][1]

\* C1, as claimed: when stderr is exactly "screen size is bogus" the listing
\* succeeds with the parsed candidates, and any other non-empty stderr makes it
\* fail with an error carrying stderr and no records.
C1_OnlyExactTextIgnored ==
    \A i \in Inv : ExecResolved(i) =>
        /\ stderr[i] = ScreenSizeIsBogus =>
               Listed(i) /\ Items(i) = Candidates(stdout[i])
        /\ (stderr[i] # <<>> /\ stderr[i] # ScreenSizeIsBogus) =>
               /\ ~Listed(i)
               /\ outcome[i] = CommandExecutionError(stderr[i])

\* C1, amended: when stderr contains "screen size is bogus", alone or with
\* other text around it, the listing succeeds with the parsed candidates; when
\* stderr is not empty and does not contain it, the listing fails with an error
\* carrying stderr and no records.
C1_TextIgnoredWhereverItOccurs ==
    \A i \in Inv : ExecResolved(i) =>
        /\ Includes(stderr[i], ScreenSizeIsBogus) =>
               Listed(i) /\ Items(i) = Candidates(stdout[i])
        /\ (stderr[i] # <<>> /\ ~Includes(stderr[i], ScreenSizeIsBogus)) =>
               /\ ~Listed(i)
               /\ outcome[i] = CommandExecutionError(stderr[i])

C1_Witness ==
    /\ ExecResolved(1)
    /\ stderr[1] = <<"your", "131072x1">> \o ScreenSizeIsBogus \o <<"expect", "trouble">>
    /\ Listed(1)
    /\ Len(Items(1)) = 2

\* C2: when the chooser dismisses the list, pickProcess rejects with
\* 'Process not selected' and resolves to nothing.
C2_DismissalRejects ==
    \A i \in Inv : (Answered(i) /\ Answer(i) = <<>>) => outcome[i] = SelectionError

C2_Witness ==
    /\ Answered(1)
    /\ Answer(1) = <<>>
    /\ Items(1) # <<>>
    /\ pc[1] = "done"

\* C3: the record the chooser picks is one of this invocation's listing, and
\* pickProcess resolves to its pid in decimal, a colon and its label.
C3_PickedRecordFormatted ==
    \A i \in Inv : (Answered(i) /\ Answer(i) # <<>>) =>
        LET r == Answer(i)[1]
        IN  /\ r \in Range(Candidates(stdout[i]))
            /\ outcome[i] = Resolved(NumToString(r.pid) \o <<":">> \o r.label)

C3_Witness ==
    /\ Answered(1)
    /\ Answer(1) # <<>>
    /\ Answer(1)[1].pid = 42
    /\ outcome[1] = Resolved(<<"4", "2", ":">> \o Root \o <<":">> \o Systemd)

\* C5: the list returned holds exactly the records of the matching lines after
\* the header, in their order; a line that does not match is left out and does
\* not make the listing fail.
C5_RecordsInSourceOrder ==
    \A i \in Inv :
        /\ Listed(i) => Items(i) = Candidates(stdout[i])
        /\ (ExecResolved(i) /\ stderr[i] = <<>>) => Listed(i)

C5_Witness ==
    /\ Listed(1)
    /\ Split(stdout[1]) = <<HeaderRow, Row(Process42), CutRow, Row(Process1)>>
    /\ Len(Items(1)) = 2
    /\ Items(1)[1].pid = 42
    /\ Items(1)[2].pid = 1

\* C6: the first line of stdout gives no record whatever it holds, and every
\* later line that matches gives one.
C6_FirstLineDiscarded ==
    \A i \in Inv : Listed(i) =>
        LET lines == Split(stdout[i])
            later == {k \in 2..Len(lines) : ParseRow(lines[k]) # <<>>}
        IN  /\ Len(Items(i)) = Cardinality(later)
            /\ \A k \in later : ParseRow(lines[k])[1] \in Range(Items(i))

C6_Witness ==
    /\ Listed(1)
    /\ ParseRow(Split(stdout[1])[1]) # <<>>
    /\ ParseRow(Split(stdout[1])[1])[1] \notin Range(Items(1))
    /\ Len(Items(1)) = 3

\* getAttachItems threw for invocation i
ListingThrew(i) == ExecResolved(i) /\ ~GetAttachItems(stdout[i], stderr[i], <<>>).ok

\* C9: an invocation runs the command once, before it shows any list; when the
\* listing fails nothing is shown, nothing is run again and pickProcess rejects
\* with that very error.
C9_ListOnceThenShow ==
    \A i \in Inv :
        /\ execCalls[i] = IF pc[i] = "idle" THEN 0 ELSE 1
        /\ Listed(i) => ExecResolved(i) /\ Len(shown[i]) = 1
        /\ ListingThrew(i) =>
               /\ shown[i] = <<>>
               /\ picked[i] = <<>>
               /\ pc[i] = "done"
               /\ outcome[i] = Rejected(GetAttachItems(stdout[i], stderr[i], <<>>).value)
        /\ execError[i] # <<>> =>
               /\ shown[i] = <<>>
               /\ pc[i] = "done"
               /\ outcome[i] = Rejected(execError[i][1])

C9_Witness ==
    /\ ListingThrew(1)
    /\ stdout[1] = Join(<<HeaderRow, Row(Process1)>>)
    /\ outcome[1] = CommandExecutionError(<<"screen", "size">>)

\* the records of the lines of a command output
OwnRecords(out) == {ParseRow(l)[1] : l \in {m \in Range(Split(out)) : Structural(m)}}

\* what an invocation's own command output and own chooser answer give
OwnOutcome(i) ==
    IF execError[i] # <<>> THEN Rejected(execError[i][1])
    ELSE IF ~Answered(i) THEN CommandExecutionError(stderr[i])
    ELSE IF Answer(i) = <<>> THEN SelectionError
    ELSE Resolved(NumToString(Answer(i)[1].pid) \o <<":">> \o Answer(i)[1].label)

\* C10: with two invocations in flight, the outcome of each is the one its own
\* command output and its own chooser answer give, and every record it shows or
\* returns comes from its own command output.
C10_InvocationsIsolated ==
    \A i \in Inv :
        /\ pc[i] = "done" => outcome[i] = OwnOutcome(i)
        /\ Listed(i) => Range(Items(i)) \subseteq OwnRecords(stdout[i])
        /\ (Answered(i) /\ Answer(i) # <<>>) => Answer(i)[1] \in OwnRecords(stdout[i])

C10_Witness ==
    /\ pc[1] = "pick"
    /\ Len(Items(1)) = 2
    /\ pc[2] = "done"
    /\ outcome[2] = Resolved(<<"1", ":">> \o Root \o <<":">> \o Systemd)
    /\ stdout[1] # stdout[2]

====
